---- MODULE Spec2Model ----
(***************************************************************************)
(* The use_aws MCP server: a line-delimited JSON-RPC read loop             *)
(* (src/src/mcp_server.rs) that dispatches requests by method name and,    *)
(* for tools/call, runs the aws CLI as a subprocess (src/src/use_aws.rs).  *)
(*                                                                         *)
(* Environment assumptions of the model: reads from stdin and writes to    *)
(* stdout do not fail with an I/O error, and a response always serializes. *)
(***************************************************************************)
EXTENDS Integers, Sequences, FiniteSets, TLC

\* ------------------------------------------------------------------------
\* Bounds
\* ------------------------------------------------------------------------

\* number of input lines the peer sends before end of input
MaxLines == 2

\* ------------------------------------------------------------------------
\* JSON values as they appear in a field of an inbound object.
\* t is the JSON type of the value ("absent": the key is not there),
\* v its text.
\* ------------------------------------------------------------------------

Absent == [t |-> "absent", v |-> ""]

Null == [t |-> "null", v |-> ""]

Str(s) == [t |-> "str", v |-> s]

Num(s) == [t |-> "num", v |-> s]

Obj(s) == [t |-> "obj", v |-> s]

\* serde: a field of type String accepts a JSON string only
IsString(x) == x.t = "str"

\* serde: a field of type serde_json::Value needs the key to be present
\* (null included); a missing key is the error "missing field"
IsValue(x) == x.t # "absent"

\* serde: a field of type Option<String> accepts a missing key, null or a string
IsOptString(x) == x.t \in {"absent", "null", "str"}

\* The "error" member of a Response-shaped message decodes as
\* Option<JsonRpcError>: missing, null, or an object with code and message.
WellFormedError == Obj("{\"code\":-1,\"message\":\"x\"}")

IsOptRpcError(x) == x.t \in {"absent", "null"} \/ x = WellFormedError

\* ------------------------------------------------------------------------
\* The arguments of a tool call and the params of a request
\* ------------------------------------------------------------------------

\* one entry of the parameters object
Entry(name, value) == [name |-> name, value |-> value]

\* the "parameters" member of the arguments: t is its JSON type, m its
\* entries when it is an object, in the order the HashMap iterates them
NoParameters == [t |-> "absent", m |-> <<>>]

Parameters(entries) == [t |-> "obj", m |-> entries]

\* a JSON value in the place of the arguments that is not an object
NonObjectArgs(ty) ==
    [t |-> ty, service_name |-> Absent, operation_name |-> Absent,
     parameters |-> NoParameters, region |-> Absent,
     profile_name |-> Absent, label |-> Absent]

ObjectArgs(s, o, ps, r, p, l) ==
    [t |-> "obj", service_name |-> s, operation_name |-> o,
     parameters |-> ps, region |-> r, profile_name |-> p, label |-> l]

GoodArgs ==
    ObjectArgs(Str("s3"), Str("list-buckets"), NoParameters,
               Str("us-west-2"), Absent, Absent)

ArgsVals ==
    { NonObjectArgs("absent"), NonObjectArgs("null"), NonObjectArgs("str"),
      GoodArgs,
      ObjectArgs(Str("s3"), Str("put-object"),
                 Parameters(<<Entry("max-items", Str("10"))>>),
                 Str("us-west-2"), Str("development"), Str("label")),
      ObjectArgs(Str(""), Str(""), [t |-> "null", m |-> <<>>],
                 Str(""), Null, Null),
      ObjectArgs(Absent, Str("list-buckets"), NoParameters,
                 Str("us-west-2"), Absent, Absent),
      ObjectArgs(Str("s3"), Str("list-buckets"), NoParameters,
                 Absent, Absent, Absent),
      ObjectArgs(Str("s3"), Str("list-buckets"), [t |-> "str", m |-> <<>>],
                 Str("us-west-2"), Num("1"), Absent) }

\* the params member of a request: t is its JSON type; name and arguments
\* are its members when it is an object
NonObjectParams(ty) ==
    [t |-> ty, name |-> Absent, arguments |-> NonObjectArgs("absent")]

ObjectParams(nm, args) == [t |-> "obj", name |-> nm, arguments |-> args]

NameVals == {Absent, Num("1"), Str("use_aws"), Str("other")}

CallParamsVals ==
    { NonObjectParams("absent"), NonObjectParams("null"),
      NonObjectParams("str") }
    \cup { ObjectParams(Str("use_aws"), args) : args \in ArgsVals }
    \cup { ObjectParams(nm, args) :
             nm \in NameVals,
             args \in {NonObjectArgs("absent"), NonObjectArgs("null"), GoodArgs} }

\* ------------------------------------------------------------------------
\* Input lines
\* ------------------------------------------------------------------------

WhiteSpace == {" ", "\t"}

\* a line of text that is not JSON: raw holds its characters
TextLine(chars) ==
    [raw |-> chars, json |-> "none", jsonrpc |-> Absent, id |-> Absent,
     method |-> Absent, params |-> NonObjectParams("absent"),
     error |-> Absent]

\* a line holding a JSON value that is not an object
ScalarLine ==
    [raw |-> <<>>, json |-> "scalar", jsonrpc |-> Absent, id |-> Absent,
     method |-> Absent, params |-> NonObjectParams("absent"),
     error |-> Absent]

\* a line holding a JSON object with the given members
ObjectLine(v, i, m, p, e) ==
    [raw |-> <<>>, json |-> "object", jsonrpc |-> v, id |-> i,
     method |-> m, params |-> p, error |-> e]

JsonrpcVals == {Absent, Num("2"), Str("2.0")}

IdVals == {Absent, Null, Num("1")}

MethodVals ==
    { Absent, Num("7"), Str("initialize"), Str("tools/list"),
      Str("tools/call"), Str("notifications/initialized"), Str("foo") }

ErrorVals == {Absent, Str("boom"), WellFormedError}

Lines ==
    { TextLine(<<>>), TextLine(<<" ", "\t">>), TextLine(<<" ", "{", "x">>),
      ScalarLine }
    \cup { ObjectLine(v, i, m, p, e) :
             v \in JsonrpcVals, i \in IdVals, m \in MethodVals,
             p \in {NonObjectParams("absent"), NonObjectParams("null")},
             e \in ErrorVals }
    \cup { ObjectLine(Str("2.0"), i, Str("tools/call"), p, Absent) :
             i \in IdVals, p \in CallParamsVals }

\* str::trim: drop leading and trailing white space
RECURSIVE TrimStart(_)
TrimStart(s) ==
    IF s = <<>> THEN <<>>
    ELSE IF Head(s) \in WhiteSpace THEN TrimStart(Tail(s)) ELSE s

RECURSIVE TrimEnd(_)
TrimEnd(s) ==
    IF s = <<>> THEN <<>>
    ELSE IF s[Len(s)] \in WhiteSpace THEN TrimEnd(SubSeq(s, 1, Len(s) - 1))
    ELSE s

Trim(s) == TrimEnd(TrimStart(s))

\* line.trim().is_empty()
IsBlank(line) == line.json = "none" /\ Trim(line.raw) = <<>>

\* ------------------------------------------------------------------------
\* Decoding a line into a JsonRpcMessage (#[serde(untagged)]: the variants
\* are tried in the order Request, Response, Notification; the first that
\* fits wins; unknown members are ignored)
\* ------------------------------------------------------------------------

\* Option<serde_json::Value>: a missing key and null both give None
OptionOfValue(p) == IF p.t \in {"absent", "null"} THEN NonObjectParams("absent") ELSE p

FitsRequest(line) ==
    /\ line.json = "object"
    /\ IsString(line.jsonrpc)
    /\ IsValue(line.id)
    /\ IsString(line.method)

FitsResponse(line) ==
    /\ line.json = "object"
    /\ IsString(line.jsonrpc)
    /\ IsValue(line.id)
    /\ IsOptRpcError(line.error)

FitsNotification(line) ==
    /\ line.json = "object"
    /\ IsString(line.jsonrpc)
    /\ IsString(line.method)

Message(k, i, m, p) == [kind |-> k, id |-> i, method |-> m, params |-> p]

NoMessage == Message("None", Absent, "", NonObjectParams("absent"))

BlankLine == Message("Blank", Absent, "", NonObjectParams("absent"))

Undecodable == Message("Undecodable", Absent, "", NonObjectParams("absent"))

Decode(line) ==
    IF FitsRequest(line)
    THEN Message("Request", line.id, line.method.v, OptionOfValue(line.params))
    ELSE IF FitsResponse(line)
    THEN Message("Response", line.id, "", NonObjectParams("absent"))
    ELSE IF FitsNotification(line)
    THEN Message("Notification", Absent, line.method.v, OptionOfValue(line.params))
    ELSE Undecodable

\* ------------------------------------------------------------------------
\* Decoding the params of tools/call
\* ------------------------------------------------------------------------

\* serde_json::from_value::<ToolCall>(params): an object whose name is a
\* string and whose arguments key is present
ToolCallDecodes(params) ==
    /\ params.t = "obj"
    /\ IsString(params.name)
    /\ IsValue(params.arguments)

\* Option<HashMap<String, Value>>: a missing key, null or an object
IsOptMap(ps) == ps.t \in {"absent", "null", "obj"}

\* serde_json::from_value::<UseAwsRequest>(arguments)
UseAwsRequestDecodes(args) ==
    /\ args.t = "obj"
    /\ IsString(args.service_name)
    /\ IsString(args.operation_name)
    /\ IsOptMap(args.parameters)
    /\ IsString(args.region)
    /\ IsOptString(args.profile_name)
    /\ IsOptString(args.label)

\* Option<String>: some is FALSE for None
NoneString == [some |-> FALSE, v |-> ""]

OptString(x) == IF x.t = "str" THEN [some |-> TRUE, v |-> x.v] ELSE NoneString

\* Option<HashMap>: some is FALSE for None, m holds the entries
OptMap(ps) == [some |-> ps.t = "obj", m |-> IF ps.t = "obj" THEN ps.m ELSE <<>>]

\* UseAws::from(UseAwsRequest), for arguments that decode
UseAwsFrom(args) ==
    [service_name |-> args.service_name.v,
     operation_name |-> args.operation_name.v,
     parameters |-> OptMap(args.parameters),
     region |-> args.region.v,
     profile_name |-> OptString(args.profile_name),
     label |-> OptString(args.label)]

\* Display of a serde_json::Value: its JSON text (a string keeps its quotes)
JsonText(x) ==
    CASE x.t = "str" -> "\"" \o x.v \o "\""
      [] x.t = "null" -> "null"
      [] OTHER -> x.v

\* queue_description, the line printed for one parameter
ParameterLine(e) ==
    IF e.value.t = "str" /\ e.value.v = ""
    THEN "- " \o e.name \o "\n"
    ELSE "- " \o e.name \o ": " \o JsonText(e.value) \o "\n"

\* queue_description printing no profile line when there is no profile
queue_descriptionNoDefaultProfile(cmd) ==
    <<"Running aws cli command:\n\n",
      "Service name: " \o cmd.service_name \o "\n",
      "Operation name: " \o cmd.operation_name \o "\n">>
    \o (IF cmd.parameters.some
        THEN <<"Parameters: \n">>
             \o [i \in 1..Len(cmd.parameters.m) |-> ParameterLine(cmd.parameters.m[i])]
        ELSE <<>>)
    \o (IF cmd.profile_name.some
        THEN <<"Profile name: " \o cmd.profile_name.v \o "\n">>
        ELSE <<>>)
    \o <<"Region: " \o cmd.region>>
    \o (IF cmd.label.some THEN <<"\nLabel: " \o cmd.label.v>> ELSE <<>>)

\* UseAws::queue_description into a Vec<u8> (writes to a Vec do not fail):
\* the pieces printed, in order
queue_description(cmd) ==
    <<"Running aws cli command:\n\n",
      "Service name: " \o cmd.service_name \o "\n",
      "Operation name: " \o cmd.operation_name \o "\n">>
    \o (IF cmd.parameters.some
        THEN <<"Parameters: \n">>
             \o [i \in 1..Len(cmd.parameters.m) |-> ParameterLine(cmd.parameters.m[i])]
        ELSE <<>>)
    \o (IF cmd.profile_name.some
        THEN <<"Profile name: " \o cmd.profile_name.v \o "\n">>
        ELSE <<"Profile name: default\n">>)
    \o <<"Region: " \o cmd.region>>
    \o (IF cmd.label.some THEN <<"\nLabel: " \o cmd.label.v>> ELSE <<>>)

\* ------------------------------------------------------------------------
\* The subprocess and its captured output
\* ------------------------------------------------------------------------

MAX_TOOL_RESPONSE_SIZE == 100000

\* the share of the budget a stream may keep
Share == MAX_TOOL_RESPONSE_SIZE \div 3

\* lengths in bytes of what the subprocess may print on one stream
OutputLens == {Share, Share + 1}

\* a captured stream after to_str_lossy: its length in bytes and whether
\* byte index Share is a character boundary of it (always so when the text
\* is not longer than Share)
Stream(len, boundary) == [len |-> len, boundary |-> boundary]

Streams ==
    { Stream(len, TRUE) : len \in OutputLens }
    \cup { Stream(len, FALSE) : len \in {l \in OutputLens : l > Share} }

\* &text[0..text.len().min(Share)] panics when the end of the slice is not
\* a character boundary
SlicePanics(stream) == stream.len > Share /\ ~stream.boundary

\* output.status.code(): None when the process was ended by a signal
NoCode == [some |-> FALSE, v |-> 0]

Code(c) == [some |-> TRUE, v |-> c]

ExitCodes == {NoCode, Code(0), Code(1)}

Min(a, b) == IF a < b THEN a ELSE b

\* Truncated cutting at half of the budget
TruncatedAtHalf(len) ==
    [len |-> Min(len, MAX_TOOL_RESPONSE_SIZE \div 2),
     marker |-> len > MAX_TOOL_RESPONSE_SIZE \div 2]

\* a captured stream after truncation: the bytes kept and whether the
\* marker " ... truncated" follows them
Truncated(len) == [len |-> Min(len, Share), marker |-> len > Share]

NoText == [len |-> 0, marker |-> FALSE]

\* StatusString giving "-1" when the process has no exit code
StatusStringSignalled(code) == ToString(IF code.some THEN code.v ELSE -1)

\* output.status.code().unwrap_or(0).to_string()
StatusString(code) == ToString(IF code.some THEN code.v ELSE 0)

\* ------------------------------------------------------------------------
\* Responses
\* ------------------------------------------------------------------------

NoResult ==
    [some |-> FALSE, kind |-> "", tools |-> "", description |-> <<>>,
     exit_status |-> "", stdout |-> NoText, stderr |-> NoText]

\* a message built by format!: the format string, its string argument and,
\* when the argument is a captured stream, that text
Msg(fmt, arg, text) == [fmt |-> fmt, arg |-> arg, text |-> text]

NoError == [some |-> FALSE, code |-> 0, message |-> Msg("", "", NoText)]

RpcError(code, message) == [some |-> TRUE, code |-> code, message |-> message]

NoResponse == [id |-> Absent, result |-> NoResult, error |-> NoError]

ErrorResponse(id, code, message) ==
    [id |-> id, result |-> NoResult, error |-> RpcError(code, message)]

ResultResponse(id, result) == [id |-> id, result |-> result, error |-> NoError]

\* MethodNotFound answering with a null id instead of the request's id
MethodNotFoundNullId(request) ==
    ErrorResponse(Null, -32601,
                  Msg("Method '{}' not found", request.method, NoText))

\* MethodNotFound answering with the code for an invalid request
MethodNotFoundInvalidRequest(request) ==
    ErrorResponse(request.id, -32600,
                  Msg("Method '{}' not found", request.method, NoText))

\* handle_request, the arm for any other method
MethodNotFound(request) ==
    ErrorResponse(request.id, -32601,
                  Msg("Method '{}' not found", request.method, NoText))

\* handle_initialize
InitializeResponse(request) ==
    ResultResponse(request.id,
                   [NoResult EXCEPT !.some = TRUE, !.kind = "capabilities"])

\* what tools/list finds when it reads schema.json: the file is missing,
\* is not JSON, is JSON without a top-level tools key, or has one; tools is
\* the JSON text of the value under that key
Manifest(state, tools) == [state |-> state, tools |-> tools]

NoManifest == Manifest("unread", "")

ManifestStates ==
    { Manifest("missing", ""), Manifest("invalid", ""),
      Manifest("no_tools", ""),
      Manifest("ok", "[]"), Manifest("ok", "[{\"name\":\"use_aws\"}]") }

\* ToolsListResponse answering a missing schema.json with an empty tool list
ToolsListResponseEmptyOnMissing(request, manifest) ==
    CASE manifest.state = "missing" ->
           ResultResponse(request.id,
                          [NoResult EXCEPT !.some = TRUE, !.kind = "tools",
                                           !.tools = "[]"])
      [] manifest.state = "invalid" ->
           ErrorResponse(request.id, -32603,
                         Msg("Failed to parse schema.json: {}", "json error", NoText))
      [] manifest.state = "no_tools" ->
           ErrorResponse(request.id, -32603,
                         Msg("schema.json does not contain a 'tools' key", "", NoText))
      [] OTHER ->
           ResultResponse(request.id,
                          [NoResult EXCEPT !.some = TRUE, !.kind = "tools",
                                           !.tools = manifest.tools])

\* handle_tools_list
ToolsListResponse(request, manifest) ==
    CASE manifest.state = "missing" ->
           ErrorResponse(request.id, -32603,
                         Msg("Failed to read schema.json: {}", "io error", NoText))
      [] manifest.state = "invalid" ->
           ErrorResponse(request.id, -32603,
                         Msg("Failed to parse schema.json: {}", "json error", NoText))
      [] manifest.state = "no_tools" ->
           ErrorResponse(request.id, -32603,
                         Msg("schema.json does not contain a 'tools' key", "", NoText))
      [] OTHER ->
           ResultResponse(request.id,
                          [NoResult EXCEPT !.some = TRUE, !.kind = "tools",
                                           !.tools = manifest.tools])

\* ToolNotFound leaving a result next to the error
ToolNotFoundWithResult(request) ==
    [id |-> request.id,
     result |-> [NoResult EXCEPT !.some = TRUE, !.kind = "content"],
     error |-> RpcError(-32601,
                        Msg("Tool '{}' not found", request.params.name.v, NoText))]

\* handle_tool_call, the name is not "use_aws"
ToolNotFound(request) ==
    ErrorResponse(request.id, -32601,
                  Msg("Tool '{}' not found", request.params.name.v, NoText))

\* handle_tool_call, invoke returned Err because the process did not start
SpawnFailed(request) ==
    ErrorResponse(request.id, -32000,
                  Msg("Tool execution failed: {}", "Unable to spawn command", NoText))

\* ToolCallResponse putting the whole of stderr in the error message
ToolCallResponseWholeStderr(request, description, code, outLen, errLen) ==
    IF StatusString(code) = "0"
    THEN ResultResponse(request.id,
             [some |-> TRUE, kind |-> "content", tools |-> "",
              description |-> description,
              exit_status |-> StatusString(code),
              stdout |-> Truncated(outLen),
              stderr |-> Truncated(errLen)])
    ELSE ErrorResponse(request.id, -32000,
             Msg("Tool execution failed: {}", "",
                 [len |-> errLen, marker |-> FALSE]))

\* handle_tool_call after invoke returned: Ok when the status string is "0",
\* otherwise Err carrying the truncated stderr; description is the text in
\* description_output
ToolCallResponse(request, description, code, outLen, errLen) ==
    IF StatusString(code) = "0"
    THEN ResultResponse(request.id,
             [some |-> TRUE, kind |-> "content", tools |-> "",
              description |-> description,
              exit_status |-> StatusString(code),
              stdout |-> Truncated(outLen),
              stderr |-> Truncated(errLen)])
    ELSE ErrorResponse(request.id, -32000,
             Msg("Tool execution failed: {}", "", Truncated(errLen)))

\* serde_json::to_string(&response): result and error are left out of the
\* line when they are None (skip_serializing_if)
Encode(response) ==
    [id |-> response.id,
     result |-> IF response.result.some THEN response.result.kind ELSE "absent",
     error |-> IF response.error.some THEN "present" ELSE "absent",
     code |-> IF response.error.some THEN response.error.code ELSE 0]

\* ------------------------------------------------------------------------
\* State
\* ------------------------------------------------------------------------

VARIABLES
    pc,        \* where run is: "read", "handle", "invoke", "wait", "write",
               \* "done" (returned Ok), "failed" (returned Err) or
               \* "panicked" (the process aborted on a panic)
    nread,     \* number of lines taken from the input so far
    cur,       \* the message decoded from the last line read
    resp,      \* the JsonRpcResponse the handler returned for the message
               \* being handled (none yet when a message has just been read)
    out,       \* the lines written to stdout, each with the number of the
               \* input line that was being handled when it was written
    reqs,      \* the Requests passed to handle_message: input line and id
    running,   \* number of subprocesses that were started and have not exited
    spawned,   \* the input lines for which a subprocess was started
    failure,   \* the McpError run returned with, and where it arose
    description_output,  \* handle_tool_call: the bytes queue_description
               \* wrote for the message being handled
    manifest,  \* what tools/list found in schema.json for this message
    proc,      \* exit code and captured output of the subprocess of this
               \* message
    input,     \* the argument of the function under study (see the
               \* specifications of the pure functions below)
    result     \* what the function returned for input

server == <<pc, nread, cur, resp, out, reqs, running, spawned, failure,
            description_output, manifest, proc>>

vars == <<pc, nread, cur, resp, out, reqs, running, spawned, failure,
          description_output, manifest, proc, input, result>>

NoFailure == [variant |-> "", site |-> ""]

Failure(variant, site) == [variant |-> variant, site |-> site]

\* the outcome of a subprocess: its exit code and its two captured streams
Outcome(code, stdout, stderr) == [code |-> code, stdout |-> stdout, stderr |-> stderr]

NoOutcome == Outcome(NoCode, Stream(0, TRUE), Stream(0, TRUE))

\* no function is being applied
NotApplied == [applied |-> FALSE]

\* the server right after AwsMcpServer::new
ServerInit ==
    /\ pc = "read"
    /\ nread = 0
    /\ cur = NoMessage
    /\ resp = NoResponse
    /\ out = <<>>
    /\ reqs = <<>>
    /\ running = 0
    /\ spawned = <<>>
    /\ failure = NoFailure
    /\ description_output = <<>>
    /\ manifest = NoManifest
    /\ proc = NoOutcome

Init ==
    /\ ServerInit
    /\ input = NotApplied
    /\ result = NotApplied

\* ------------------------------------------------------------------------
\* run: the read loop
\* ------------------------------------------------------------------------

\* ReadLine skipping a line that does not decode instead of failing
ReadLineSkipUndecodable(line) ==
    /\ pc = "read"
    /\ nread < MaxLines
    /\ nread' = nread + 1
    /\ IF IsBlank(line)
       THEN /\ cur' = BlankLine
            /\ UNCHANGED <<pc, reqs, failure>>
       ELSE IF Decode(line) = Undecodable
       THEN /\ cur' = Undecodable
            /\ UNCHANGED <<pc, reqs, failure>>
       ELSE /\ cur' = Decode(line)
            /\ pc' = "handle"
            /\ reqs' = IF Decode(line).kind = "Request"
                       THEN Append(reqs, [at |-> nread + 1, id |-> Decode(line).id])
                       ELSE reqs
            /\ UNCHANGED failure
    /\ resp' = IF IsBlank(line) THEN resp ELSE NoResponse
    /\ description_output' = <<>>
    /\ manifest' = NoManifest
    /\ proc' = NoOutcome
    /\ UNCHANGED <<out, running, spawned, input, result>>

\* one turn of the for loop up to the call of handle_message: a blank line
\* is skipped, a line that does not decode ends run with an error
ReadLine(line) ==
    /\ pc = "read"
    /\ nread < MaxLines
    /\ nread' = nread + 1
    /\ IF IsBlank(line)
       THEN /\ cur' = BlankLine
            /\ UNCHANGED <<pc, reqs, failure>>
       ELSE IF Decode(line) = Undecodable
       THEN /\ cur' = Undecodable
            /\ pc' = "failed"
            /\ failure' = Failure("Serialization", "line")
            /\ UNCHANGED reqs
       ELSE /\ cur' = Decode(line)
            /\ pc' = "handle"
            /\ reqs' = IF Decode(line).kind = "Request"
                       THEN Append(reqs, [at |-> nread + 1, id |-> Decode(line).id])
                       ELSE reqs
            /\ UNCHANGED failure
    /\ resp' = IF IsBlank(line) THEN resp ELSE NoResponse
    /\ description_output' = <<>>
    /\ manifest' = NoManifest
    /\ proc' = NoOutcome
    /\ UNCHANGED <<out, running, spawned, input, result>>

\* EndOfInput leaving run in the loop at the end of the input
EndOfInputIgnored ==
    /\ pc = "read"
    /\ pc' = "read"
    /\ UNCHANGED <<nread, cur, resp, out, reqs, running, spawned, failure>>
    /\ UNCHANGED <<description_output, manifest, proc, input, result>>

\* reader.lines() is exhausted: run returns Ok(())
EndOfInput ==
    /\ pc = "read"
    /\ pc' = "done"
    /\ UNCHANGED <<nread, cur, resp, out, reqs, running, spawned, failure>>
    /\ UNCHANGED <<description_output, manifest, proc, input, result>>

\* the handler returned Ok(response): run goes on to write it
Return(response) ==
    /\ resp' = response
    /\ pc' = "write"
    /\ UNCHANGED <<nread, cur, out, reqs, running, spawned, failure>>
    /\ UNCHANGED <<description_output, proc, input, result>>

\* the handler returned Err(e): the ? operators carry it out of run
Propagate(variant, site) ==
    /\ failure' = Failure(variant, site)
    /\ pc' = "failed"
    /\ UNCHANGED <<nread, cur, resp, out, reqs, running, spawned>>
    /\ UNCHANGED <<description_output, manifest, proc, input, result>>

\* handle_message, Notification arm, with handle_notification
HandleNotification ==
    /\ pc = "handle"
    /\ cur.kind = "Notification"
    /\ pc' = "read"
    /\ UNCHANGED <<nread, cur, resp, out, reqs, running, spawned, failure>>
    /\ UNCHANGED <<description_output, manifest, proc, input, result>>

\* handle_message, Response arm
HandleResponse ==
    /\ pc = "handle"
    /\ cur.kind = "Response"
    /\ pc' = "read"
    /\ UNCHANGED <<nread, cur, resp, out, reqs, running, spawned, failure>>
    /\ UNCHANGED <<description_output, manifest, proc, input, result>>

HandleInitialize ==
    /\ pc = "handle"
    /\ cur.kind = "Request"
    /\ cur.method = "initialize"
    /\ Return(InitializeResponse(cur))
    /\ UNCHANGED manifest

\* found is what reading schema.json gives at this moment
HandleToolsList(found) ==
    /\ pc = "handle"
    /\ cur.kind = "Request"
    /\ cur.method = "tools/list"
    /\ manifest' = found
    /\ Return(ToolsListResponse(cur, found))

HandleUnknownMethod ==
    /\ pc = "handle"
    /\ cur.kind = "Request"
    /\ cur.method \notin {"initialize", "tools/call", "tools/list"}
    /\ Return(MethodNotFound(cur))
    /\ UNCHANGED manifest

\* HandleToolCall without the comparison of the tool name
HandleToolCallAnyName ==
    /\ pc = "handle"
    /\ cur.kind = "Request"
    /\ cur.method = "tools/call"
    /\ IF cur.params.t = "absent"
       THEN Propagate("InvalidRequest", "params")
       ELSE IF ~ToolCallDecodes(cur.params)
       THEN Propagate("Serialization", "params")
       ELSE IF ~UseAwsRequestDecodes(cur.params.arguments)
       THEN Propagate("Serialization", "arguments")
       ELSE /\ description_output' =
                   queue_description(UseAwsFrom(cur.params.arguments))
            /\ pc' = "invoke"
            /\ UNCHANGED <<nread, cur, resp, out, reqs, running, spawned, failure>>
            /\ UNCHANGED <<manifest, proc, input, result>>

\* handle_tool_call up to the call of invoke: the params and the arguments
\* are decoded, the name is compared, the description is generated
HandleToolCall ==
    /\ pc = "handle"
    /\ cur.kind = "Request"
    /\ cur.method = "tools/call"
    /\ IF cur.params.t = "absent"
       THEN Propagate("InvalidRequest", "params")
       ELSE IF ~ToolCallDecodes(cur.params)
       THEN Propagate("Serialization", "params")
       ELSE IF cur.params.name.v # "use_aws"
       THEN Return(ToolNotFound(cur)) /\ UNCHANGED manifest
       ELSE IF ~UseAwsRequestDecodes(cur.params.arguments)
       THEN Propagate("Serialization", "arguments")
       ELSE /\ description_output' =
                   queue_description(UseAwsFrom(cur.params.arguments))
            /\ pc' = "invoke"
            /\ UNCHANGED <<nread, cur, resp, out, reqs, running, spawned, failure>>
            /\ UNCHANGED <<manifest, proc, input, result>>

\* SpawnSubprocess returning without waiting for the process to exit
SpawnWithoutWait(started) ==
    /\ pc = "invoke"
    /\ IF started
       THEN /\ running' = running + 1
            /\ spawned' = Append(spawned, nread)
            /\ resp' = ToolCallResponse(cur, description_output, Code(0), Share, Share)
            /\ pc' = "write"
            /\ UNCHANGED <<nread, cur, out, reqs, failure>>
            /\ UNCHANGED <<description_output, manifest, proc, input, result>>
       ELSE Return(SpawnFailed(cur)) /\ UNCHANGED manifest

\* UseAws::invoke, command.spawn(): the process starts, or it does not and
\* invoke returns the error
SpawnSubprocess(started) ==
    /\ pc = "invoke"
    /\ IF started
       THEN /\ running' = running + 1
            /\ spawned' = Append(spawned, nread)
            /\ pc' = "wait"
            /\ UNCHANGED <<nread, cur, resp, out, reqs, failure>>
            /\ UNCHANGED <<description_output, manifest, proc, input, result>>
       ELSE Return(SpawnFailed(cur)) /\ UNCHANGED manifest

\* UseAws::invoke, wait_with_output().await returns: the process has exited
\* with the given code and output. Both streams are cut to Share bytes; a
\* cut inside a character panics and the panic aborts the process. Otherwise
\* the rest of handle_tool_call builds the response.
SubprocessExit(code, stdout, stderr) ==
    /\ pc = "wait"
    /\ running > 0
    /\ running' = running - 1
    /\ proc' = Outcome(code, stdout, stderr)
    /\ IF SlicePanics(stdout) \/ SlicePanics(stderr)
       THEN /\ pc' = "panicked"
            /\ UNCHANGED resp
       ELSE /\ resp' = ToolCallResponse(cur, description_output, code,
                                        stdout.len, stderr.len)
            /\ pc' = "write"
    /\ UNCHANGED <<nread, cur, out, reqs, spawned, failure>>
    /\ UNCHANGED <<description_output, manifest, input, result>>

\* run: the response is serialized, written as one line and flushed
WriteResponse ==
    /\ pc = "write"
    /\ out' = Append(out, [line |-> Encode(resp), at |-> nread])
    /\ pc' = "read"
    /\ UNCHANGED <<nread, cur, resp, reqs, running, spawned, failure>>
    /\ UNCHANGED <<description_output, manifest, proc, input, result>>

Next ==
    \/ \E line \in Lines : ReadLine(line)
    \/ EndOfInput
    \/ HandleNotification
    \/ HandleResponse
    \/ HandleInitialize
    \/ \E found \in ManifestStates : HandleToolsList(found)
    \/ HandleUnknownMethod
    \/ HandleToolCall
    \/ \E started \in BOOLEAN : SpawnSubprocess(started)
    \/ \E code \in ExitCodes, stdout \in Streams, stderr \in Streams :
         SubprocessExit(code, stdout, stderr)
    \/ WriteResponse

Spec == Init /\ [][Next]_vars

\* The input is finite, so a read returns a line or the end of the input;
\* a handler that was called runs on; a subprocess that was started exits.
SpecLive == Spec /\ WF_vars(Next)

TypeOK ==
    /\ pc \in {"read", "handle", "invoke", "wait", "write", "done", "failed",
               "panicked"}
    /\ nread \in 0..MaxLines
    /\ running \in 0..1

\* ------------------------------------------------------------------------
\* UseAws::requires_acceptance, applied to one command
\* ------------------------------------------------------------------------

READONLY_OPS == <<"get", "describe", "list", "ls", "search", "batch_get">>

\* str::starts_with
starts_with(s, prefix) ==
    /\ Len(prefix) <= Len(s)
    /\ SubSeq(s, 1, Len(prefix)) = prefix

\* requires_acceptance treating only the exact names in READONLY_OPS as
\* read-only
requires_acceptanceExactName(cmd) ==
    ~\E i \in DOMAIN READONLY_OPS : cmd.operation_name = READONLY_OPS[i]

requires_acceptance(cmd) ==
    ~\E i \in DOMAIN READONLY_OPS :
         starts_with(cmd.operation_name, READONLY_OPS[i])

\* a UseAws value
UseAws(service, operation, parameters, region, profile, label) ==
    [service_name |-> service, operation_name |-> operation,
     parameters |-> parameters, region |-> region,
     profile_name |-> profile, label |-> label]

SomeString(s) == [some |-> TRUE, v |-> s]

NoneMap == [some |-> FALSE, m |-> <<>>]

SomeMap(entries) == [some |-> TRUE, m |-> entries]

OperationNames ==
    { "", "g", "ge", "get", "get-object", "getx", "Get", "xget", "forget",
      "describe", "describe-instances", "descr", "list", "list-buckets",
      "lis", "ls", "l", "search", "search-faces", "batch_get",
      "batch_get_item", "batch-get-item", "batch", "put-object",
      "delete-bucket", "create-list" }

AcceptInputs ==
    { UseAws(sv, op, ps, rg, pf, lb) :
        sv \in {"s3", "get"}, op \in OperationNames,
        ps \in {NoneMap, SomeMap(<<Entry("list", Str("get"))>>)},
        rg \in {"us-west-2"}, pf \in {NoneString, SomeString("ls")},
        lb \in {NoneString} }

Applied(value) == [applied |-> TRUE, value |-> value]

AcceptInit ==
    /\ ServerInit
    /\ input \in AcceptInputs
    /\ result = NotApplied

ApplyRequiresAcceptance ==
    /\ result = NotApplied
    /\ result' = Applied(requires_acceptance(input))
    /\ UNCHANGED <<server, input>>

SpecAccept == AcceptInit /\ [][ApplyRequiresAcceptance]_vars

\* ------------------------------------------------------------------------
\* UseAws::queue_description, applied to one command
\* ------------------------------------------------------------------------

ParameterValues == {Str(""), Str("10"), Num("5"), Null}

ParameterMaps ==
    {NoneMap, SomeMap(<<>>)}
    \cup { SomeMap(<<Entry("max-items", v)>>) : v \in ParameterValues }
    \cup { SomeMap(<<Entry("max-items", v), Entry("query", w)>>) :
             v \in ParameterValues, w \in {Str(""), Str("x")} }
    \cup { SomeMap(<<Entry("query", w), Entry("max-items", v)>>) :
             v \in ParameterValues, w \in {Str(""), Str("x")} }

DescribeInputs ==
    { UseAws(sv, op, ps, rg, pf, lb) :
        sv \in {"s3"}, op \in {"put-object"}, ps \in ParameterMaps,
        rg \in {"us-west-2", ""},
        pf \in {NoneString, SomeString("development")},
        lb \in {NoneString, SomeString("upload")} }

DescribeInit ==
    /\ ServerInit
    /\ input \in DescribeInputs
    /\ result = NotApplied

ApplyQueueDescription ==
    /\ result = NotApplied
    /\ result' = Applied(queue_description(input))
    /\ UNCHANGED <<server, input>>

SpecDescribe == DescribeInit /\ [][ApplyQueueDescription]_vars

\* ------------------------------------------------------------------------
\* The argument vector UseAws::invoke gives to the aws command
\* ------------------------------------------------------------------------

UpperCase == "ABCDEFGHIJKLMNOPQRSTUVWXYZ"

LowerCase == "abcdefghijklmnopqrstuvwxyz"

CharAt(s, i) == SubSeq(s, i, i)

IsUpper(c) == \E k \in 1..Len(UpperCase) : CharAt(UpperCase, k) = c

IsLower(c) == \E k \in 1..Len(LowerCase) : CharAt(LowerCase, k) = c

ToLower(c) ==
    IF IsUpper(c)
    THEN CharAt(LowerCase, CHOOSE k \in 1..Len(UpperCase) : CharAt(UpperCase, k) = c)
    ELSE c

\* str::trim_start_matches: the pattern is removed as often as it leads
RECURSIVE trim_start_matches(_, _)
trim_start_matches(s, pat) ==
    IF starts_with(s, pat)
    THEN trim_start_matches(SubSeq(s, Len(pat) + 1, Len(s)), pat)
    ELSE s

\* to_case(Case::Kebab) from character i on, for a name made of letters
\* with single separators between its words: a hyphen, an underscore or a
\* space ends a word, so does a lower-case letter followed by an upper-case
\* one; the words are put in lower case and joined with hyphens
RECURSIVE KebabFrom(_, _)
KebabFrom(s, i) ==
    IF i > Len(s) THEN ""
    ELSE IF CharAt(s, i) \in {"-", "_", " "}
    THEN "-" \o KebabFrom(s, i + 1)
    ELSE IF i > 1 /\ IsLower(CharAt(s, i - 1)) /\ IsUpper(CharAt(s, i))
    THEN "-" \o ToLower(CharAt(s, i)) \o KebabFrom(s, i + 1)
    ELSE ToLower(CharAt(s, i)) \o KebabFrom(s, i + 1)

Kebab(s) == KebabFrom(s, 1)

\* val.as_str().map(|s| s.to_string()).unwrap_or(val.to_string())
ParamVal(value) == IF value.t = "str" THEN value.v ELSE JsonText(value)

\* cli_parameters keeping the spelling of the key after the dashes
cli_parametersNoKebab(cmd) ==
    [i \in 1..Len(cmd.parameters.m) |->
        [name |-> "--" \o trim_start_matches(cmd.parameters.m[i].name, "--"),
         val |-> ParamVal(cmd.parameters.m[i].value)]]

\* cli_parameters: the (flag, value) pairs; None gives no pairs
cli_parameters(cmd) ==
    [i \in 1..Len(cmd.parameters.m) |->
        [name |-> "--" \o Kebab(trim_start_matches(cmd.parameters.m[i].name, "--")),
         val |-> ParamVal(cmd.parameters.m[i].value)]]

\* invoke: command.arg(name), then command.arg(val) unless val is empty
RECURSIVE ParameterArgs(_)
ParameterArgs(pairs) ==
    IF pairs = <<>> THEN <<>>
    ELSE <<Head(pairs).name>>
         \o (IF Head(pairs).val # "" THEN <<Head(pairs).val>> ELSE <<>>)
         \o ParameterArgs(Tail(pairs))

\* invoke: the arguments given to the command, in order
CommandArgs(cmd) ==
    <<"--region", cmd.region>>
    \o (IF cmd.profile_name.some THEN <<"--profile", cmd.profile_name.v>> ELSE <<>>)
    \o <<cmd.service_name, cmd.operation_name>>
    \o ParameterArgs(cli_parameters(cmd))

ParameterKeys ==
    {"TableName", "--max-items", "max-items", "query", "dry_run", "----KeySchema"}

ArgvMaps ==
    {NoneMap, SomeMap(<<>>)}
    \cup { SomeMap(<<Entry(k, v)>>) : k \in ParameterKeys, v \in ParameterValues }
    \cup { SomeMap(<<Entry("TableName", v), Entry("--max-items", w)>>) :
             v \in ParameterValues, w \in {Str(""), Str("10")} }
    \cup { SomeMap(<<Entry("dry_run", w), Entry("query", v)>>) :
             v \in ParameterValues, w \in {Str(""), Str("10")} }

ArgvInputs ==
    { UseAws(sv, op, ps, rg, pf, lb) :
        sv \in {"dynamodb"}, op \in {"scan"}, ps \in ArgvMaps,
        rg \in {"us-west-2"},
        pf \in {NoneString, SomeString("development")},
        lb \in {NoneString} }

ArgvInit ==
    /\ ServerInit
    /\ input \in ArgvInputs
    /\ result = NotApplied

ApplyCommandArgs ==
    /\ result = NotApplied
    /\ result' = Applied(CommandArgs(input))
    /\ UNCHANGED <<server, input>>

SpecArgv == ArgvInit /\ [][ApplyCommandArgs]_vars

\* ------------------------------------------------------------------------
\* UseAws::invoke, the truncation of the two captured streams
\* ------------------------------------------------------------------------

\* lengths in bytes of a captured stream, around the share, around half of
\* the budget, and the whole budget
CapturedLens ==
    { 0, 1, Share - 1, Share, Share + 1, MAX_TOOL_RESPONSE_SIZE \div 2,
      MAX_TOOL_RESPONSE_SIZE \div 2 + 1, MAX_TOOL_RESPONSE_SIZE }

CapturedStreams ==
    { Stream(len, TRUE) : len \in CapturedLens }
    \cup { Stream(len, FALSE) : len \in {l \in CapturedLens : l > Share} }

\* the two format! calls: a panic in either slice, or the two texts kept
CutStreams(stdout, stderr) ==
    IF SlicePanics(stdout) \/ SlicePanics(stderr)
    THEN [panicked |-> TRUE, stdout |-> NoText, stderr |-> NoText]
    ELSE [panicked |-> FALSE, stdout |-> Truncated(stdout.len),
          stderr |-> Truncated(stderr.len)]

TruncateInit ==
    /\ ServerInit
    /\ input \in { Outcome(Code(0), so, se) :
                     so \in CapturedStreams, se \in CapturedStreams }
    /\ result = NotApplied

ApplyCutStreams ==
    /\ result = NotApplied
    /\ result' = Applied(CutStreams(input.stdout, input.stderr))
    /\ UNCHANGED <<server, input>>

SpecTruncate == TruncateInit /\ [][ApplyCutStreams]_vars

\* ------------------------------------------------------------------------
\* UseAws::invoke, the environment of the subprocess
\* ------------------------------------------------------------------------

USER_AGENT_ENV_VAR == "AWS_EXECUTION_ENV"

USER_AGENT_APP_NAME == "UseAws-MCP-Server"

USER_AGENT_VERSION_KEY == "Version"

\* env!("CARGO_PKG_VERSION"): the version of the crate, fixed at build time
USER_AGENT_VERSION_VALUE == "CARGO_PKG_VERSION"

\* a variable of an environment: not set, set to a text, or set to bytes
\* that are not valid Unicode
Unset == [set |-> FALSE, unicode |-> TRUE, v |-> ""]

EnvVal(text) == [set |-> TRUE, unicode |-> TRUE, v |-> text]

NotUnicode == [set |-> TRUE, unicode |-> FALSE, v |-> ""]

EnvNames == {USER_AGENT_ENV_VAR, "PATH", "HOME"}

\* the environments the server may be started in
ParentEnvs ==
    [EnvNames -> {Unset, EnvVal(""), EnvVal("a"), EnvVal("a b"), NotUnicode}]

\* format!("{} {}/{}", USER_AGENT_APP_NAME, USER_AGENT_VERSION_KEY,
\*         USER_AGENT_VERSION_VALUE)
user_agent_metadata_value ==
    USER_AGENT_APP_NAME \o " " \o USER_AGENT_VERSION_KEY \o "/"
    \o USER_AGENT_VERSION_VALUE

\* env_vars setting the variable to the metadata alone in every case
env_varsOverwriting(parent) ==
    [parent EXCEPT ![USER_AGENT_ENV_VAR] = EnvVal(user_agent_metadata_value)]

\* env_vars after the insert: the variables of the parent, with the
\* metadata appended to a non-empty AWS_EXECUTION_ENV or put in its place
env_vars(parent) ==
    [parent EXCEPT ![USER_AGENT_ENV_VAR] =
        IF @.set /\ @.v # ""
        THEN EnvVal(@.v \o " " \o user_agent_metadata_value)
        ELSE EnvVal(user_agent_metadata_value)]

\* command.envs(env_vars): the child inherits the environment of the
\* parent, and the variables of env_vars are set on top of it
ChildEnv(parent) ==
    [n \in EnvNames |->
        IF env_vars(parent)[n].set THEN env_vars(parent)[n] ELSE parent[n]]

\* std::env::vars() panics on a variable that is not valid Unicode;
\* otherwise the command gets its environment, and the environment of the
\* server itself is not written to
CommandEnv(parent) ==
    IF \E n \in EnvNames : ~parent[n].unicode
    THEN [panicked |-> TRUE, child |-> parent, parent |-> parent]
    ELSE [panicked |-> FALSE, child |-> ChildEnv(parent), parent |-> parent]

EnvInit ==
    /\ ServerInit
    /\ input \in ParentEnvs
    /\ result = NotApplied

ApplyCommandEnv ==
    /\ result = NotApplied
    /\ result' = Applied(CommandEnv(input))
    /\ UNCHANGED <<server, input>>

SpecEnv == EnvInit /\ [][ApplyCommandEnv]_vars

\* ------------------------------------------------------------------------
\* Properties
\* ------------------------------------------------------------------------

\* run is not in the middle of handling a message
Handled == pc \in {"read", "done", "failed", "panicked"}

LastWritten == out[Len(out)]

\* the last line read has been answered with a line on stdout
Answered == out # <<>> /\ LastWritten.at = nread

IsToolCall == cur.kind = "Request" /\ cur.method = "tools/call"

\* C1: every Request passed to handle_message has, once its handling is
\* over (the subprocess, if any, has exited), exactly one Response line on
\* stdout: never zero, never more than one.
C1_ExactlyOneResponse ==
    Handled =>
        \A k \in DOMAIN reqs :
            Cardinality({j \in DOMAIN out : out[j].at = reqs[k].at}) = 1

\* C2: handling a Request never ends run: after an unknown method, a
\* tools/call with missing params or malformed arguments, a manifest failure,
\* a non-zero exit or a spawn failure the read loop is still running.
C2_RequestNeverEndsRun == cur.kind = "Request" => pc # "failed"

\* C3: every Response written carries the id of the Request that was being
\* handled when it was written, and Responses come out in the order of the
\* Requests they answer.
C3_IdEchoedInOrder ==
    \A k \in DOMAIN out :
        /\ \E r \in DOMAIN reqs :
               reqs[r].at = out[k].at /\ reqs[r].id = out[k].line.id
        /\ k > 1 => out[k - 1].at < out[k].at

C3_Witness ==
    /\ Len(out) = 2
    /\ out[1].line.id # out[2].line.id
    /\ out[1].line.error = "present"
    /\ out[2].line.result # "absent"

\* C4: every line written has exactly one of result and error: never both,
\* never neither.
C4_ResultXorError ==
    \A k \in DOMAIN out :
        (out[k].line.result = "absent") # (out[k].line.error = "absent")

C4_Witness ==
    /\ Len(out) = 2
    /\ out[1].line.code = -32601
    /\ cur.method = "tools/call"
    /\ out[2].line.result = "content"

\* C5: a tools/call for use_aws whose arguments do not deserialize into a
\* UseAwsRequest is answered with error code -32603 and no result.
C5_BadArgumentsAnswered ==
    ( /\ Handled
      /\ IsToolCall
      /\ ToolCallDecodes(cur.params)
      /\ cur.params.name.v = "use_aws"
      /\ ~UseAwsRequestDecodes(cur.params.arguments) )
    => ( /\ Answered
         /\ LastWritten.line.code = -32603
         /\ LastWritten.line.result = "absent" )

\* C6: a tools/call whose name is a string other than "use_aws" is answered
\* with error code -32601 and no result, starts no subprocess and leaves the
\* session running, whatever else the params hold.
C6_UnknownToolAnswered ==
    ( /\ Handled
      /\ IsToolCall
      /\ cur.params.t = "obj"
      /\ IsString(cur.params.name)
      /\ cur.params.name.v # "use_aws" )
    => ( /\ Answered
         /\ LastWritten.line.code = -32601
         /\ LastWritten.line.result = "absent"
         /\ \A k \in DOMAIN spawned : spawned[k] # nread
         /\ pc # "failed" )

\* C7: a Request whose method is none of initialize, tools/list, tools/call
\* is answered with error code -32601, the message "Method '<name>' not
\* found" for its method, and no result; the session goes on.
C7_UnknownMethodAnswered ==
    ( /\ Handled
      /\ cur.kind = "Request"
      /\ cur.method \notin {"initialize", "tools/list", "tools/call"} )
    => ( /\ Answered
         /\ LastWritten.line = Encode(resp)
         /\ resp.id = cur.id
         /\ resp.error = RpcError(-32601,
                Msg("Method '{}' not found", cur.method, NoText))
         /\ resp.result = NoResult
         /\ LastWritten.line.code = -32601
         /\ LastWritten.line.result = "absent"
         /\ pc # "failed" )

C7_Witness ==
    /\ pc = "read"
    /\ cur.kind = "Request"
    /\ cur.method = "foo"
    /\ Answered
    /\ nread = 2

\* C8: the number of lines written equals the number of Requests handled;
\* a Notification or a Response-shaped message writes nothing, raises no
\* error and leaves the session running.
C8_OneLinePerRequest ==
    Handled =>
        /\ Len(out) = Len(reqs)
        /\ cur.kind \in {"Notification", "Response"} =>
               (~Answered /\ pc # "failed")

\* C9: at most one subprocess runs at any time, and a line is taken from
\* the input only when no subprocess is running and, if the previous message
\* was a Request, its Response has been written.
C9_OneMessageAtATime ==
    /\ [](running <= 1)
    /\ [][nread' # nread =>
             /\ running = 0
             /\ pc \notin {"handle", "invoke", "wait", "write"}
             /\ cur.kind = "Request" => Answered]_vars

C9_Witness ==
    /\ nread = 2
    /\ spawned = <<1>>
    /\ running = 0
    /\ Len(out) = 1
    /\ out[1].at = 1
    /\ cur.kind \in {"Request", "Notification"}

\* C10: a non-blank line that does not decode ends run: nothing is written
\* for it and nothing is read or written afterwards; a blank line changes
\* nothing but the position in the input.
C10_UndecodableLineIsFatal ==
    [][ /\ (nread' # nread /\ cur'.kind = "Undecodable") =>
               (pc' = "failed" /\ out' = out)
        /\ (pc = "failed" /\ failure.site = "line") =>
               (pc' = "failed" /\ nread' = nread /\ out' = out)
        /\ (nread' # nread /\ cur'.kind = "Blank") =>
               UNCHANGED <<pc, resp, out, reqs, running, spawned, failure>>
      ]_vars

C10_Witness ==
    /\ pc = "failed"
    /\ cur.kind = "Undecodable"
    /\ failure = Failure("Serialization", "line")
    /\ nread = 1
    /\ out = <<>>

\* the subprocess started for the last line read has exited and invoke has
\* returned to handle_tool_call
InvokeReturned ==
    /\ IsToolCall
    /\ spawned # <<>>
    /\ spawned[Len(spawned)] = nread
    /\ running = 0
    /\ pc \in {"write", "read", "done"}

ExitedNonZero == InvokeReturned /\ StatusString(proc.code) # "0"

\* the captured stderr after truncation, from the lengths alone
StderrKept ==
    [len |-> IF proc.stderr.len > Share THEN Share ELSE proc.stderr.len,
     marker |-> proc.stderr.len > Share]

\* C11 as stated: when the subprocess of a tools/call exits with a non-zero
\* code, the Response carries error code -32000 whose message equals the
\* captured (possibly truncated) stderr text, and carries no result.
C11_MessageEqualsStderr ==
    ExitedNonZero =>
        /\ resp.error = RpcError(-32000, Msg("{}", "", StderrKept))
        /\ resp.result = NoResult

\* C11 (amended): every Response built for a tools/call whose subprocess
\* exited with a non-zero code carries error code -32000 whose message is
\* "Tool execution failed: " followed by the captured stderr text, cut to
\* the share and marked when it was longer, and carries no result; that
\* Response is the line written.
C11_MessagePrefixedStderr ==
    ExitedNonZero =>
        /\ resp.id = cur.id
        /\ resp.error =
               RpcError(-32000, Msg("Tool execution failed: {}", "", StderrKept))
        /\ resp.result = NoResult
        /\ pc # "write" =>
               /\ Answered
               /\ LastWritten.line = Encode(resp)
               /\ LastWritten.line.code = -32000
               /\ LastWritten.line.result = "absent"

C11_Witness ==
    /\ ExitedNonZero
    /\ pc = "read"
    /\ Answered
    /\ proc.code = Code(1)
    /\ proc.stderr.len > Share
    /\ resp.error.message.text.marker

\* C17: a tools/list is answered with error code -32603 and no result when
\* schema.json is missing, is not JSON or has no top-level tools key, and
\* otherwise with a result holding the manifest's tools value; in all four
\* cases the line is written and the read loop goes on.
C17_ToolsListAnswered ==
    (Handled /\ cur.kind = "Request" /\ cur.method = "tools/list")
    => /\ pc \notin {"failed", "panicked"}
       /\ Answered
       /\ LastWritten.line = Encode(resp)
       /\ resp.id = cur.id
       /\ manifest.state \in {"missing", "invalid", "no_tools", "ok"}
       /\ manifest.state \in {"missing", "invalid", "no_tools"} =>
              /\ resp.error.some
              /\ resp.error.code = -32603
              /\ resp.result = NoResult
              /\ LastWritten.line.result = "absent"
       /\ manifest.state = "ok" =>
              /\ resp.error = NoError
              /\ resp.result.some
              /\ resp.result.kind = "tools"
              /\ resp.result.tools = manifest.tools
              /\ LastWritten.line.error = "absent"

C17_Witness ==
    /\ pc = "read"
    /\ nread = 2
    /\ Len(reqs) = 2
    /\ cur.method = "tools/list"
    /\ Len(out) = 2
    /\ out[1].line.code = -32603
    /\ out[2].line.result = "tools"
    /\ manifest.state = "ok"
    /\ resp.result.tools = manifest.tools
    /\ manifest.tools # "[]"

\* C18: a subprocess is started only from handle_tool_call, for a Request
\* whose params and arguments decoded and whose name is use_aws, after the
\* description was generated and before the response is assembled, and at
\* most once for one Request; a tools/call response with content is
\* assembled only after that subprocess has exited.
C18_FixedOrderOneInvocation ==
    [][ /\ spawned' # spawned =>
               /\ pc = "invoke"
               /\ IsToolCall
               /\ ToolCallDecodes(cur.params)
               /\ cur.params.name.v = "use_aws"
               /\ UseAwsRequestDecodes(cur.params.arguments)
               /\ description_output =
                      queue_description(UseAwsFrom(cur.params.arguments))
               /\ \A k \in DOMAIN spawned : spawned[k] # nread
               /\ spawned' = Append(spawned, nread)
               /\ resp' = resp
               /\ out' = out
        /\ (resp' # resp /\ resp'.result.kind = "content") =>
               /\ spawned # <<>>
               /\ spawned[Len(spawned)] = nread
               /\ running' = 0
               /\ resp'.result.description = description_output
      ]_vars

C18_Witness ==
    /\ nread = 2
    /\ spawned = <<1, 2>>
    /\ pc = "read"
    /\ Len(out) = 2
    /\ out[2].line.result = "content"
    /\ resp.result.description = description_output
    /\ description_output # <<>>

\* C19: whenever a subprocess has been started for the Request being
\* handled, the service name, the operation name and the region of its
\* arguments are non-empty strings.
C19_InvokedFieldsNonEmpty ==
    pc = "wait" =>
        /\ cur.params.arguments.service_name.v # ""
        /\ cur.params.arguments.operation_name.v # ""
        /\ cur.params.arguments.region.v # ""

\* the first n characters of the name are one of the read-only prefixes
HasReadOnlyPrefix(name) ==
    \E n \in 0..Len(name) :
        SubSeq(name, 1, n) \in
            {"get", "describe", "list", "ls", "search", "batch_get"}

\* C12: requires_acceptance returns a boolean for every command; it is
\* false exactly when the operation name starts with get, describe, list,
\* ls, search or batch_get and true otherwise, the empty name included;
\* the result is determined by the operation name alone.
C12_ReadOnlyByPrefix ==
    result # NotApplied =>
        /\ result.value \in BOOLEAN
        /\ result.value = ~HasReadOnlyPrefix(input.operation_name)
        /\ input.operation_name = "" => result.value
        /\ \A other \in AcceptInputs :
               other.operation_name = input.operation_name =>
                   requires_acceptance(other) = result.value

C12_Witness ==
    /\ result # NotApplied
    /\ input.operation_name = "batch_get_item"
    /\ input.service_name = "get"
    /\ input.parameters.some
    /\ ~result.value

\* C13: the description holds the "Parameters:" section exactly when the
\* command has at least one parameter: it is left out both when there are
\* no parameters and when the parameter map is present but empty.
C13_NoSectionWithoutParameters ==
    result # NotApplied =>
        ( (\E i \in DOMAIN result.value : result.value[i] = "Parameters: \n")
          <=> (input.parameters.some /\ Len(input.parameters.m) > 0) )

\* the text "- name" or "- name: value" for one parameter, the value in its
\* JSON text
ExpectedParameterLine(e) ==
    IF e.value = Str("") THEN "- " \o e.name \o "\n"
    ELSE "- " \o e.name \o ": "
         \o (CASE e.value.t = "str" -> "\"" \o e.value.v \o "\""
               [] e.value.t = "null" -> "null"
               [] OTHER -> e.value.v)
         \o "\n"

\* C14: the description is, in this order: the header, the service line,
\* the operation line, the parameter section if any (its title, then one
\* line per parameter, "- name" for an empty string value and
\* "- name: value" otherwise), one profile line (the profile, or "default"
\* when there is none), the region line, and a label line exactly when there
\* is a label. The section is there when there is a parameter and is not
\* there when the command has no parameter map.
C14_DescriptionLayout ==
    result # NotApplied =>
        LET d == result.value
            l == IF input.label.some THEN 1 ELSE 0
            n == Len(input.parameters.m)
            section == SubSeq(d, 4, Len(d) - 2 - l)
        IN  /\ Len(d) >= 5 + l
            /\ d[1] = "Running aws cli command:\n\n"
            /\ d[2] = "Service name: " \o input.service_name \o "\n"
            /\ d[3] = "Operation name: " \o input.operation_name \o "\n"
            /\ \/ section = <<>>
               \/ /\ Len(section) = 1 + n
                  /\ section[1] = "Parameters: \n"
                  /\ \A i \in 1..n :
                         section[1 + i] =
                             ExpectedParameterLine(input.parameters.m[i])
            /\ n > 0 => section # <<>>
            /\ ~input.parameters.some => section = <<>>
            /\ d[Len(d) - 1 - l] =
                   "Profile name: "
                   \o (IF input.profile_name.some
                       THEN input.profile_name.v ELSE "default")
                   \o "\n"
            /\ d[Len(d) - l] = "Region: " \o input.region
            /\ l = 1 => d[Len(d)] = "\nLabel: " \o input.label.v

C14_Witness ==
    /\ result # NotApplied
    /\ input.parameters =
           SomeMap(<<Entry("query", Str("")), Entry("max-items", Str("10"))>>)
    /\ ~input.profile_name.some
    /\ input.label.some
    /\ result.value =
           <<"Running aws cli command:\n\n", "Service name: s3\n",
             "Operation name: put-object\n", "Parameters: \n", "- query\n",
             "- max-items: \"10\"\n", "Profile name: default\n",
             "Region: us-west-2", "\nLabel: upload">>

\* the subprocess started for the last line read has exited
SubprocessExited ==
    /\ IsToolCall
    /\ spawned # <<>>
    /\ spawned[Len(spawned)] = nread
    /\ running = 0

\* what the claim gives for a captured stream: the whole of it and no marker
\* when it is not longer than the share, the first Share bytes and the
\* marker when it is
Kept(stream) ==
    IF stream.len > Share
    THEN [len |-> Share, marker |-> TRUE]
    ELSE [len |-> stream.len, marker |-> FALSE]

\* C15: once the subprocess has exited, invoke returns for every captured
\* stdout and stderr, and each stream, on its own, comes back whole and
\* without the marker when it is not longer than the share, and as its
\* first Share bytes followed by the marker when it is longer.
C15_TruncationPerStream ==
    SubprocessExited =>
        /\ pc # "panicked"
        /\ StatusString(proc.code) = "0" =>
               /\ resp.result.stdout = Kept(proc.stdout)
               /\ resp.result.stderr = Kept(proc.stderr)
        /\ StatusString(proc.code) # "0" =>
               resp.error.message.text = Kept(proc.stderr)

\* the flag the claim gives for a parameter key
ExpectedFlag(key) ==
    CASE key = "TableName" -> "--table-name"
      [] key = "--max-items" -> "--max-items"
      [] key = "max-items" -> "--max-items"
      [] key = "query" -> "--query"
      [] key = "dry_run" -> "--dry-run"
      [] key = "----KeySchema" -> "--key-schema"

\* the string form of a parameter value: a string as it is, any other value
\* as its JSON text
ExpectedValue(value) ==
    CASE value.t = "str" -> value.v
      [] value.t = "null" -> "null"
      [] OTHER -> value.v

\* the arguments the claim gives for the parameters from entry i on
RECURSIVE ExpectedParameterArgs(_, _)
ExpectedParameterArgs(entries, i) ==
    IF i > Len(entries) THEN <<>>
    ELSE (IF entries[i].value = Str("")
          THEN <<ExpectedFlag(entries[i].name)>>
          ELSE <<ExpectedFlag(entries[i].name), ExpectedValue(entries[i].value)>>)
         \o ExpectedParameterArgs(entries, i + 1)

\* C16: the argument vector is "--region" and the region, then "--profile"
\* and the profile exactly when there is a profile, then the service and
\* the operation, then for each parameter the flag "--" plus the key
\* without its leading dashes in kebab-case, followed by the string form of
\* the value unless the value is the empty string.
C16_ArgumentVector ==
    result # NotApplied =>
        LET a == result.value
            p == IF input.profile_name.some THEN 2 ELSE 0
        IN  /\ Len(a) >= 4 + p
            /\ a[1] = "--region"
            /\ a[2] = input.region
            /\ input.profile_name.some =>
                   (a[3] = "--profile" /\ a[4] = input.profile_name.v)
            /\ ~input.profile_name.some =>
                   \A i \in DOMAIN a : a[i] # "--profile"
            /\ a[p + 3] = input.service_name
            /\ a[p + 4] = input.operation_name
            /\ SubSeq(a, p + 5, Len(a)) =
                   ExpectedParameterArgs(input.parameters.m, 1)

C16_Witness ==
    /\ result # NotApplied
    /\ input.parameters =
           SomeMap(<<Entry("TableName", Str("")), Entry("--max-items", Str("10"))>>)
    /\ result.value =
           <<"--region", "us-west-2", "--profile", "development", "dynamodb",
             "scan", "--table-name", "--max-items", "10">>

\* the bytes of a captured text of the given length that a limit keeps
KeptOf(len, limit) == IF len > limit THEN limit ELSE len

\* C21 as stated: each stream is allotted half of the budget: it keeps all
\* its bytes up to half of MAX_TOOL_RESPONSE_SIZE, and the bytes kept of
\* stdout and stderr together never exceed MAX_TOOL_RESPONSE_SIZE.
C21_HalfOfBudgetEach ==
    (result # NotApplied /\ ~result.value.panicked) =>
        /\ result.value.stdout.len =
               KeptOf(input.stdout.len, MAX_TOOL_RESPONSE_SIZE \div 2)
        /\ result.value.stderr.len =
               KeptOf(input.stderr.len, MAX_TOOL_RESPONSE_SIZE \div 2)
        /\ result.value.stdout.len + result.value.stderr.len
               <= MAX_TOOL_RESPONSE_SIZE

\* C21 (amended): each stream is allotted a third of the budget, rounded
\* down: it keeps all its bytes up to MAX_TOOL_RESPONSE_SIZE / 3 and no
\* more, so the bytes kept of stdout and stderr, markers not counted,
\* together never exceed two thirds of the budget.
C21_ThirdOfBudgetEach ==
    (result # NotApplied /\ ~result.value.panicked) =>
        /\ result.value.stdout.len =
               KeptOf(input.stdout.len, MAX_TOOL_RESPONSE_SIZE \div 3)
        /\ result.value.stderr.len =
               KeptOf(input.stderr.len, MAX_TOOL_RESPONSE_SIZE \div 3)
        /\ 3 * (result.value.stdout.len + result.value.stderr.len)
               <= 2 * MAX_TOOL_RESPONSE_SIZE
        /\ result.value.stdout.len + result.value.stderr.len
               <= MAX_TOOL_RESPONSE_SIZE

C21_Witness ==
    /\ result # NotApplied
    /\ ~result.value.panicked
    /\ input.stdout.len = MAX_TOOL_RESPONSE_SIZE \div 2
    /\ input.stderr.len = MAX_TOOL_RESPONSE_SIZE
    /\ result.value.stdout.len = 33333
    /\ result.value.stderr.len = 33333

\* C24: the truncation gives a result for every captured stdout and stderr,
\* also when a text is longer than the share and the byte at the cut lies
\* inside a character: it never panics.
C24_TruncationNeverPanics ==
    result # NotApplied => ~result.value.panicked

\* the exit code of the subprocess, with 0 in the place of a missing code,
\* is zero
ExitCodeIsZero == ~proc.code.some \/ proc.code.v = 0

\* C23: a subprocess that ended without an exit code is answered with a
\* success Response whose exit_status is "0", not with a -32000 error; and
\* the Response of a tools/call whose subprocess has exited is a success
\* exactly when the exit code, 0 standing for a missing one, is 0, and a
\* -32000 error otherwise.
C23_NoExitCodeIsSuccess ==
    InvokeReturned =>
        /\ ~proc.code.some =>
               /\ resp.error = NoError
               /\ resp.result.some
               /\ resp.result.kind = "content"
               /\ resp.result.exit_status = "0"
               /\ pc # "write" =>
                      /\ Answered
                      /\ LastWritten.line.result = "content"
                      /\ LastWritten.line.error = "absent"
        /\ (resp.result.some /\ resp.error = NoError) <=> ExitCodeIsZero
        /\ resp.result.some => resp.result.exit_status = "0"
        /\ ~ExitCodeIsZero =>
               /\ resp.result = NoResult
               /\ resp.error.some
               /\ resp.error.code = -32000

C23_Witness ==
    /\ InvokeReturned
    /\ pc = "read"
    /\ proc.code = NoCode
    /\ Answered
    /\ LastWritten.line.result = "content"
    /\ resp.result.exit_status = "0"

\* C22: the environment given to the subprocess has every variable other
\* than AWS_EXECUTION_ENV as the parent has it; AWS_EXECUTION_ENV is the
\* parent's value, one space and the token when the parent's value is set
\* and not empty, and the token alone when it is unset or empty; the
\* environment of the parent is as it was.
C22_EnvironmentFrame ==
    (result # NotApplied /\ ~result.value.panicked) =>
        LET child == result.value.child
            token == "UseAws-MCP-Server Version/" \o USER_AGENT_VERSION_VALUE
            old == input["AWS_EXECUTION_ENV"]
        IN  /\ \A n \in DOMAIN input :
                   n # "AWS_EXECUTION_ENV" => child[n] = input[n]
            /\ DOMAIN child = DOMAIN input
            /\ child["AWS_EXECUTION_ENV"].set
            /\ (old.set /\ old.v # "") =>
                   child["AWS_EXECUTION_ENV"].v = old.v \o " " \o token
            /\ (~old.set \/ old.v = "") =>
                   child["AWS_EXECUTION_ENV"].v = token
            /\ result.value.parent = input

C22_Witness ==
    /\ result # NotApplied
    /\ ~result.value.panicked
    /\ input["AWS_EXECUTION_ENV"] = EnvVal("a b")
    /\ input["PATH"] = Unset
    /\ input["HOME"] = EnvVal("")
    /\ result.value.child["AWS_EXECUTION_ENV"].v =
           "a b UseAws-MCP-Server Version/CARGO_PKG_VERSION"
    /\ result.value.child["PATH"] = Unset
    /\ result.value.child["HOME"] = EnvVal("")

\* run has returned or the process has aborted
Ended == pc \in {"done", "failed", "panicked"}

\* C25: when the input is finite and every subprocess exits, run ends; if
\* no line was undecodable and no Request ended in an error of run or in a
\* panic, it ends by returning Ok at the end of the input, with no
\* subprocess running and every Request answered; every read takes exactly
\* the next line.
C25_RunEndsNormally ==
    /\ <>Ended
    /\ [](pc \notin {"failed", "panicked"})
           => <>[](/\ pc = "done"
                   /\ failure = NoFailure
                   /\ running = 0
                   /\ Len(out) = Len(reqs))
    /\ [][nread' = nread \/ (pc = "read" /\ nread' = nread + 1)]_vars

C25_Witness ==
    /\ pc = "done"
    /\ nread = 2
    /\ failure = NoFailure
    /\ spawned = <<1>>
    /\ Len(reqs) = 2
    /\ Len(out) = 2
    /\ cur.kind = "Request"

====
